---- MODULE Spec2Model ----
(***************************************************************************)
(* Model of the sales-loss calculator of src/src/App.tsx.                  *)
(*                                                                         *)
(* The file holds two revisions of the same React component (lines 1-834   *)
(* and 836-1670).  Both keep five numeric inputs in component state and    *)
(* derive a CalculationResult from them in a useMemo block.  The two       *)
(* result blocks are textually equal except for the response-time status   *)
(* ladder, the default response time and the response-time ceiling.        *)
(*                                                                         *)
(* JavaScript numbers are modelled as decimal floating-point values with   *)
(* Precision significant digits, rounded after every operation, together   *)
(* with NaN, +Infinity and -Infinity.                                      *)
(***************************************************************************)
EXTENDS Integers, Sequences, FiniteSets

(***************************************************************************)
(* Numbers.  A finite number is m * 10^e with m = 0 (and e = 0) or         *)
(* 10^5 <= |m| < 10^6.                                                     *)
(***************************************************************************)
Precision == 6

\* JavaScript evaluates an operand once, before the operator is applied:
\* Strict1/Strict2 evaluate the arguments to values and then apply F to them
Strict1(F(_), x) == CHOOSE r \in {F(a) : a \in {x}} : TRUE

Strict2(F(_, _), x, y) == CHOOSE r \in {F(a, b) : a \in {x}, b \in {y}} : TRUE

Pow10(k) == <<1, 10, 100, 1000, 10000, 100000, 1000000, 10000000,
              100000000, 1000000000>>[k + 1]

Abs(i) == IF i < 0 THEN -i ELSE i

Sgn(i) == IF i < 0 THEN -1 ELSE IF i > 0 THEN 1 ELSE 0

Digits(a) ==
    IF a < 10 THEN 1 ELSE IF a < 100 THEN 2 ELSE IF a < 1000 THEN 3
    ELSE IF a < 10000 THEN 4 ELSE IF a < 100000 THEN 5
    ELSE IF a < 1000000 THEN 6 ELSE IF a < 10000000 THEN 7
    ELSE IF a < 100000000 THEN 8 ELSE IF a < 1000000000 THEN 9 ELSE 10

Fin(m, e) == [kind |-> "fin", m |-> m, e |-> e]

NaN == [kind |-> "nan", m |-> 0, e |-> 0]

PosInf == [kind |-> "inf", m |-> 1, e |-> 0]

NegInf == [kind |-> "inf", m |-> -1, e |-> 0]

Zero == Fin(0, 0)

\* sgn * u * 10^e, where the rounding may have carried u up to 10^Precision
RoundCarry(sgn, u, e) ==
    IF u = Pow10(Precision) THEN Fin(sgn * Pow10(Precision - 1), e + 1)
    ELSE Fin(sgn * u, e)

\* sgn * a * 10^e for a > 0 of d digits: padded to Precision digits, or its
\* d - Precision last digits rounded off, half away from zero
RoundDigits(sgn, a, d, e) ==
    IF d <= Precision
    THEN Fin(sgn * a * Pow10(Precision - d), e - (Precision - d))
    ELSE RoundCarry(sgn,
                    IF 2 * (a % Pow10(d - Precision)) >= Pow10(d - Precision)
                    THEN a \div Pow10(d - Precision) + 1
                    ELSE a \div Pow10(d - Precision),
                    e + (d - Precision))

\* i * 10^e rounded (half away from zero) to Precision digits
Round(i, e) ==
    IF i = 0 THEN Zero ELSE RoundDigits(Sgn(i), Abs(i), Digits(Abs(i)), e)

Num(i, e) == Strict2(Round, i, e)

One == Num(1, 0)

IsNaN(x) == x.kind = "nan"

IsInf(x) == x.kind = "inf"

IsFinite(x) == x.kind = "fin"

Sign(x) == IF x.kind = "nan" THEN 0 ELSE Sgn(x.m)

Negate(x) == IF x.kind = "nan" THEN NaN ELSE [x EXCEPT !.m = -x.m]

Neg(x) == Strict1(Negate, x)

\* x + y for finite x, y with x.e >= y.e, both non-zero
AddAligned(x, y) ==
    LET d == x.e - y.e
    IN  IF d > 8 THEN x
        ELSE LET A == x.m * 1000
                 B == IF d <= 3 THEN y.m * Pow10(3 - d)
                      ELSE Sgn(y.m) * (Abs(y.m) \div Pow10(d - 3))
             IN  Num(A + B, x.e - 3)

AddValues(x, y) ==
    IF IsNaN(x) \/ IsNaN(y) THEN NaN
    ELSE IF IsInf(x) /\ IsInf(y) THEN (IF x.m = y.m THEN x ELSE NaN)
    ELSE IF IsInf(x) THEN x
    ELSE IF IsInf(y) THEN y
    ELSE IF x.m = 0 THEN y
    ELSE IF y.m = 0 THEN x
    ELSE IF x.e >= y.e THEN AddAligned(x, y) ELSE AddAligned(y, x)

Add(x, y) == Strict2(AddValues, x, y)

Sub(x, y) == Add(x, Neg(y))

MulValues(x, y) ==
    IF IsNaN(x) \/ IsNaN(y) THEN NaN
    ELSE IF IsInf(x) \/ IsInf(y)
    THEN (IF Sign(x) = 0 \/ Sign(y) = 0 THEN NaN
          ELSE IF Sign(x) * Sign(y) > 0 THEN PosInf ELSE NegInf)
    ELSE IF x.m = 0 \/ y.m = 0 THEN Zero
    ELSE LET a  == Abs(x.m)
             b  == Abs(y.m)
             a1 == a \div 1000
             a0 == a % 1000
             b1 == b \div 1000
             b0 == b % 1000
             t  == (a1 * b0 + a0 * b1) * 1000 + a0 * b0
             hi == a1 * b1 + t \div 1000000
             lo == t % 1000000
         IN  Num(Sgn(x.m) * Sgn(y.m) * (hi * 1000 + lo \div 1000),
                 x.e + y.e + 3)

Mul(x, y) == Strict2(MulValues, x, y)

DivValues(x, y) ==
    IF IsNaN(x) \/ IsNaN(y) THEN NaN
    ELSE IF IsInf(x)
    THEN (IF IsInf(y) THEN NaN
          ELSE IF Sign(x) * (IF Sign(y) < 0 THEN -1 ELSE 1) > 0
               THEN PosInf ELSE NegInf)
    ELSE IF IsInf(y) THEN Zero
    ELSE IF y.m = 0
    THEN (IF x.m = 0 THEN NaN ELSE IF x.m > 0 THEN PosInf ELSE NegInf)
    ELSE IF x.m = 0 THEN Zero
    ELSE LET a  == Abs(x.m)
             b  == Abs(y.m)
             q1 == (a * 1000) \div b
             r1 == (a * 1000) % b
             q2 == (r1 * 1000) \div b
             r2 == (r1 * 1000) % b
             q3 == (r2 * 100) \div b
         IN  Num(Sgn(x.m) * Sgn(y.m) * ((q1 * 1000 + q2) * 100 + q3),
                 x.e - y.e - 8)

Div(x, y) == Strict2(DivValues, x, y)

\* comparisons; every comparison with NaN is false
LtValues(x, y) ==
    IF IsNaN(x) \/ IsNaN(y) THEN FALSE
    ELSE IF IsInf(x) THEN x.m < 0 /\ x # y
    ELSE IF IsInf(y) THEN y.m > 0
    ELSE IF Sgn(x.m) # Sgn(y.m) THEN Sgn(x.m) < Sgn(y.m)
    ELSE IF x.m > 0 THEN x.e < y.e \/ (x.e = y.e /\ x.m < y.m)
    ELSE IF x.m < 0 THEN x.e > y.e \/ (x.e = y.e /\ x.m < y.m)
    ELSE FALSE

Lt(x, y) == Strict2(LtValues, x, y)

Gt(x, y) == Lt(y, x)

EqValues(x, y) == ~IsNaN(x) /\ ~IsNaN(y) /\ x = y

Eq(x, y) == Strict2(EqValues, x, y)

LeValues(x, y) == LtValues(x, y) \/ EqValues(x, y)

Le(x, y) == Strict2(LeValues, x, y)

Ge(x, y) == Le(y, x)

\* Math.min / Math.max of two numbers: NaN if either is NaN
MinValues(x, y) ==
    IF IsNaN(x) \/ IsNaN(y) THEN NaN ELSE IF LtValues(y, x) THEN y ELSE x

MathMin(x, y) == Strict2(MinValues, x, y)

MaxValues(x, y) ==
    IF IsNaN(x) \/ IsNaN(y) THEN NaN ELSE IF LtValues(x, y) THEN y ELSE x

MathMax(x, y) == Strict2(MaxValues, x, y)

(***************************************************************************)
(* Math.log, Math.log10 and Math.exp, computed in the same arithmetic by   *)
(* range reduction and a short series.                                     *)
(***************************************************************************)
LN2 == Num(693147, -6)

LN10 == Num(230259, -5)

Two == Num(2, 0)

\* largest integer <= x, for finite x of moderate size
Floor(x) ==
    IF x.m = 0 THEN 0
    ELSE IF x.e >= 0 THEN x.m * Pow10(x.e)
    ELSE IF -x.e > 9 THEN (IF x.m < 0 THEN -1 ELSE 0)
    ELSE x.m \div Pow10(-x.e)

FloorInt(x) == Strict1(Floor, x)

RECURSIVE LnReduce(_, _)
\* halve f until it is below 1.5; returns <<f', number of halvings>>
LnReduceValues(f, n) ==
    IF LtValues(f, Num(15, -1)) THEN <<f, n>> ELSE LnReduce(Div(f, Two), n + 1)

LnReduce(f, n) == Strict2(LnReduceValues, f, n)

\* z * (1 + z2/3 + z2^2/5 + z2^3/7 + z2^4/9) * 2, with z2 = z^2
LnPolynomial(z, z2) ==
    Mul(Two, Mul(z, Add(One,
        Mul(z2, Add(Div(One, Num(3, 0)),
        Mul(z2, Add(Div(One, Num(5, 0)),
        Mul(z2, Add(Div(One, Num(7, 0)),
        Div(z2, Num(9, 0)))))))))))

LnAtanh(z) == Strict2(LnPolynomial, z, Mul(z, z))

\* ln of a finite f in [0.75, 1.5): 2 * atanh((f - 1) / (f + 1))
LnSeries(f) == LnAtanh(Div(Sub(f, One), Add(f, One)))

\* ln(f * 2^n * 10^p) from the reduced pair red = <<f, n>>
LnCombine(red, p) ==
    Add(Add(LnSeries(red[1]), Mul(Num(red[2], 0), LN2)), Mul(Num(p, 0), LN10))

LogValue(x) ==
    IF IsNaN(x) \/ Sign(x) < 0 THEN NaN
    ELSE IF IsInf(x) THEN PosInf
    ELSE IF x.m = 0 THEN NegInf
    ELSE Strict2(LnCombine, LnReduce(Fin(x.m, 1 - Precision), 0),
                 x.e + Precision - 1)

MathLog(x) == Strict1(LogValue, x)

MathLog10(x) == Div(MathLog(x), LN10)

RECURSIVE Scale2(_, _)
\* y * 2^n
Scale2Values(y, n) ==
    IF n = 0 THEN y
    ELSE IF n > 0 THEN Scale2(Mul(y, Two), n - 1)
    ELSE Scale2(Div(y, Two), n + 1)

Scale2(y, n) == Strict2(Scale2Values, y, n)

\* e^r for |r| <= ln(2)/2, by its Taylor series of degree 8
ExpPolynomial(r) ==
    Add(One, Mul(r,
    Add(One, Mul(Div(r, Two),
    Add(One, Mul(Div(r, Num(3, 0)),
    Add(One, Mul(Div(r, Num(4, 0)),
    Add(One, Mul(Div(r, Num(5, 0)),
    Add(One, Mul(Div(r, Num(6, 0)),
    Add(One, Mul(Div(r, Num(7, 0)),
    Add(One, Div(r, Num(8, 0)))))))))))))))))

ExpSeries(r) == Strict1(ExpPolynomial, r)

\* e^x = 2^n * e^(x - n * ln 2)
ExpReduced(x, n) == Scale2(ExpSeries(Sub(x, Mul(Num(n, 0), LN2))), n)

ExpValue(x) ==
    IF IsNaN(x) THEN NaN
    ELSE IF IsInf(x) THEN (IF x.m > 0 THEN PosInf ELSE Zero)
    ELSE IF LtValues(Num(709, 0), x) THEN PosInf
    ELSE IF LtValues(x, Num(-745, 0)) THEN Zero
    ELSE Strict2(ExpReduced, x, FloorInt(Add(Div(x, LN2), Num(5, -1))))

MathExp(x) == Strict1(ExpValue, x)

(***************************************************************************)
(* The calculation of the useMemo block, one definition per const of the   *)
(* source.                                                                 *)
(***************************************************************************)
\* variant: the rate is not divided by 100
currentSalesNoPercent(nLeads, rate) == Mul(nLeads, rate)

currentSales(nLeads, rate) == Mul(nLeads, Div(rate, Num(100, 0)))

currentRevenue(sales, price) == Mul(sales, price)

annualRevenue(revenue) == Mul(revenue, Num(12, 0))

nonConvertedLeads(nLeads, sales) == Sub(nLeads, sales)

\* Follow-up Logic
\* variant: the cap is one attempt too low
safeFollowUpsCapNine(attempts) == MathMin(attempts, Num(9, 0))

safeFollowUps(attempts) == MathMin(attempts, Num(10, 0))

\* variant: the "1 -" of the decay is left out
rawLossPercentageNoComplement(safe) ==
    Div(MathLog(Add(safe, One)), MathLog(Num(11, 0)))

rawLossPercentage(safe) ==
    Sub(One, Div(MathLog(Add(safe, One)), MathLog(Num(11, 0))))

\* variant: neither the cap at 10 attempts nor the floor at 0 is applied
followUpLossFactorUnguarded(attempts) ==
    Sub(One, Div(MathLog(Add(attempts, One)), MathLog(Num(11, 0))))

followUpLossFactor(attempts) ==
    MathMax(Zero, rawLossPercentage(safeFollowUps(attempts)))

followUpStatus(factor) ==
    IF Gt(factor, Num(60, -2)) THEN "CRITICAL"
    ELSE IF Ge(factor, Num(30, -2)) THEN "WARNING"
    ELSE "ADEQUATE"

maxFollowUpRecoverable(nonConverted) == Mul(nonConverted, Num(50, -2))

followUpRecoverableLeads(nonConverted, factor) ==
    Mul(maxFollowUpRecoverable(nonConverted), factor)

\* variant: the close rate of the response-time model is used
followUpLossSalesCloseRate15(nonConverted, factor) ==
    Mul(followUpRecoverableLeads(nonConverted, factor), Num(15, -2))

followUpLossSales(nonConverted, factor) ==
    Mul(followUpRecoverableLeads(nonConverted, factor), Num(12, -2))

followUpLossRevenue(lossSales, price) == Mul(lossSales, price)

\* Response Time Logic
\* variant: the steepness has the wrong sign
kNegated == Num(-25, -1)

k == Num(25, -1)

\* variant: two digits of the midpoint are transposed
midpointTransposed == Num(187, -2)

midpoint == Num(178, -2)

timeLog(minutes) == MathLog10(Add(minutes, One))

\* variant: the sign of k in the exponent is lost
responseTimeLossFactorPlusK(minutes) ==
    Div(One, Add(One, MathExp(Mul(k, Sub(timeLog(minutes), midpoint)))))

responseTimeLossFactor(minutes) ==
    Div(One, Add(One, MathExp(Mul(Neg(k), Sub(timeLog(minutes), midpoint)))))

\* variant: the bucket limits are exclusive
responseStatusRev1Strict(minutes) ==
    IF Lt(minutes, Num(5, 0)) THEN "EXCELLENT"
    ELSE IF Lt(minutes, Num(30, 0)) THEN "GOOD"
    ELSE IF Lt(minutes, Num(60, 0)) THEN "WARNING"
    ELSE "CRITICAL"

\* first revision: the label is decided by the raw minutes
responseStatusRev1(minutes) ==
    IF Le(minutes, Num(5, 0)) THEN "EXCELLENT"
    ELSE IF Le(minutes, Num(30, 0)) THEN "GOOD"
    ELSE IF Le(minutes, Num(60, 0)) THEN "WARNING"
    ELSE "CRITICAL"

\* second revision: the label is decided by the loss factor
responseStatusRev2(factor) ==
    IF Lt(factor, Num(15, -2)) THEN "EXCELLENT"
    ELSE IF Lt(factor, Num(35, -2)) THEN "GOOD"
    ELSE IF Lt(factor, Num(60, -2)) THEN "IMPROVE"
    ELSE IF Lt(factor, Num(85, -2)) THEN "WARNING"
    ELSE "CRITICAL"

responseStatus(rev, minutes, factor) ==
    IF rev = 1 THEN responseStatusRev1(minutes)
    ELSE responseStatusRev2(factor)

maxResponseRecoverable(nonConverted) == Mul(nonConverted, Num(60, -2))

\* variant: the share is taken of nothing, the pool is left out
responseRecoverableLeadsNoPool(nonConverted, factor) ==
    Mul(Num(60, -2), factor)

responseRecoverableLeads(nonConverted, factor) ==
    Mul(maxResponseRecoverable(nonConverted), factor)

responseLossSales(nonConverted, factor) ==
    Mul(responseRecoverableLeads(nonConverted, factor), Num(15, -2))

responseLossRevenue(lossSales, price) == Mul(lossSales, price)

\* Totals
totalLossSales(fuSales, rtSales) == Add(fuSales, rtSales)

\* variant: the follow-up revenue is added twice
totalLossRevenueFollowUpTwice(fuRevenue, rtRevenue) == Add(fuRevenue, fuRevenue)

totalLossRevenue(fuRevenue, rtRevenue) == Add(fuRevenue, rtRevenue)

\* variant: the loss is subtracted from the current sales
totalPotentialSalesMinus(sales, lossSales) == Sub(sales, lossSales)

totalPotentialSales(sales, lossSales) == Add(sales, lossSales)

\* variant: the guard admits a zero denominator
efficiencyGuardGe(sales, lossSales) ==
    IF Ge(totalPotentialSales(sales, lossSales), Zero)
    THEN Mul(Div(sales, totalPotentialSales(sales, lossSales)), Num(100, 0))
    ELSE Num(100, 0)

efficiency(sales, lossSales) ==
    IF Gt(totalPotentialSales(sales, lossSales), Zero)
    THEN Mul(Div(sales, totalPotentialSales(sales, lossSales)), Num(100, 0))
    ELSE Num(100, 0)

\* a const of the callback: Const({body : name \in {value}}) computes value
\* once, binds it to name and yields body
Const(bodies) == CHOOSE body \in bodies : TRUE

\* the object returned by the useMemo callback; the consts are bound from the
\* last line upwards, in the order of the source
Calculate(rev, nLeads, rate, price, attempts, minutes) ==
    Const({ Const({ Const({ Const({ Const({ Const({
    Const({ Const({ Const({ Const({ Const({
        [ currentSales        |-> sales,
          currentRevenue      |-> revenue,
          annualRevenue       |-> annualRevenue(revenue),
          followUpStatus      |-> followUpStatus(fuFactor),
          followUpLossSales   |-> fuSales,
          followUpLossRevenue |-> fuRevenue,
          followUpLossAnnual  |-> Mul(fuRevenue, Num(12, 0)),
          followUpFactor      |-> fuFactor,
          responseStatus      |-> responseStatus(rev, minutes, rtFactor),
          responseLossSales   |-> rtSales,
          responseLossRevenue |-> rtRevenue,
          responseLossAnnual  |-> Mul(rtRevenue, Num(12, 0)),
          responseFactor      |-> rtFactor,
          totalLossSales      |-> lossSales,
          totalLossRevenue    |-> lossRevenue,
          totalLossAnnual     |-> Mul(lossRevenue, Num(12, 0)),
          efficiency          |-> efficiency(sales, lossSales) ]
        : lossRevenue \in {totalLossRevenue(fuRevenue, rtRevenue)} })
        : lossSales \in {totalLossSales(fuSales, rtSales)} })
        : rtRevenue \in {responseLossRevenue(rtSales, price)} })
        : rtSales \in {responseLossSales(nonConverted, rtFactor)} })
        : rtFactor \in {responseTimeLossFactor(minutes)} })
        : fuRevenue \in {followUpLossRevenue(fuSales, price)} })
        : fuSales \in {followUpLossSales(nonConverted, fuFactor)} })
        : fuFactor \in {followUpLossFactor(attempts)} })
        : nonConverted \in {nonConvertedLeads(nLeads, sales)} })
        : revenue \in {currentRevenue(sales, price)} })
        : sales \in {currentSales(nLeads, rate)} })

\* variant: zero-valued slices are kept
PieDataKeepZero(res) ==
    SelectSeq(<< [name |-> "Perda por Follow-up", value |-> res.followUpLossAnnual],
                 [name |-> "Perda por Tempo", value |-> res.responseLossAnnual] >>,
              LAMBDA d : Ge(d.value, Zero))

\* Chart Data: the composition series, zero and negative slices filtered out
PieData(res) ==
    SelectSeq(<< [name |-> "Perda por Follow-up", value |-> res.followUpLossAnnual],
                 [name |-> "Perda por Tempo", value |-> res.responseLossAnnual] >>,
              LAMBDA d : Gt(d.value, Zero))

(***************************************************************************)
(* State: the five useState cells of the component, the memoised result    *)
(* and the composition series derived from it at render time.  revision    *)
(* selects which of the two copies of the component is running.            *)
(***************************************************************************)
VARIABLES revision, leads, conversion, ticket, followUps, responseTime,
          result, pieData

vars == <<revision, leads, conversion, ticket, followUps, responseTime,
          result, pieData>>

inputs == <<revision, leads, conversion, ticket, followUps, responseTime>>

\* bounds of the input values the model enumerates
MaxLeadsExp == 1

MaxConversionSteps == 2

MaxTicketSteps == 1

MaxFollowUps == 11

MaxNegative == 2

LeadsValues == {Zero, Num(-100, 0)} \cup {Num(1, 2 * j) : j \in 1..MaxLeadsExp}

ConversionValues == {Num(10, 0)} \cup {Num(100 * j, 0) : j \in 0..MaxConversionSteps}

TicketValues == {Num(5000 * j, 0) : j \in 0..MaxTicketSteps}

FollowUpsValues == {NaN} \cup {Num(j, 0) : j \in (-MaxNegative)..MaxFollowUps}

\* minutes around every threshold of the two status ladders, the widget
\* minimum and the larger ceiling
ResponseTimeMarks ==
    {0, 1, 5, 6, 11, 12, 30, 31, 33, 34, 60, 61, 86, 87, 296, 297, 1439, 1440}

\* a fraction of a minute, as the number field accepts it
TinyFraction == Num(1, -Precision)

ResponseTimeValues ==
    {TinyFraction}
        \cup {Num(j, 0) : j \in ResponseTimeMarks \cup ((-MaxNegative)..(-1))}

\* no result computed yet
NoResult == [pending |-> TRUE]

Computed == result # NoResult

(***************************************************************************)
(* The engine as a pure function: the inputs are drawn from the bounded    *)
(* sets and Compute evaluates the useMemo callback on them once.           *)
(***************************************************************************)
EngineInit ==
    /\ revision \in {1, 2}
    /\ leads \in LeadsValues
    /\ conversion \in ConversionValues
    /\ ticket \in TicketValues
    /\ followUps \in FollowUpsValues
    /\ responseTime \in ResponseTimeValues
    /\ result = NoResult
    /\ pieData = <<>>

Compute ==
    /\ result = NoResult
    /\ result' = Calculate(revision, leads, conversion, ticket, followUps, responseTime)
    /\ pieData' = PieData(result')
    /\ UNCHANGED inputs

EngineNext == Compute

EngineSpec == EngineInit /\ [][EngineNext]_vars

(***************************************************************************)
(* The component: the five useState cells start at their defaults, every   *)
(* widget handler sets one of them, handleReset sets all five, and each    *)
(* change re-renders: useMemo recomputes the result when a dependency      *)
(* changed and the composition series is rebuilt from it.                  *)
(***************************************************************************)
\* min and max props of the four SliderInput widgets
LeadsMin == Num(10, 0)

LeadsMax == Num(5000, 0)

ConversionMin == Zero

ConversionMax == Num(100, 0)

TicketMin == Num(50, 0)

TicketMax == Num(50000, 0)

FollowUpsMin == Zero

FollowUpsMax == Num(10, 0)

\* min and max of the TimeSliderInput of each revision
MinMinutes == One

MAX_MINUTES(rev) == IF rev = 1 THEN Num(180, 0) ELSE Num(1440, 0)

\* the arguments of useState
DefaultLeads == Num(100, 0)

DefaultConversion == Num(10, 0)

DefaultTicket == Num(5000, 0)

DefaultFollowUps == Num(3, 0)

DefaultResponseTime(rev) == IF rev = 1 THEN Num(60, 0) ELSE Num(240, 0)

\* positions the range inputs are moved to: they emit values in [min, max]
LeadsStops == {LeadsMin, LeadsMax}

ConversionStops == {ConversionMin, ConversionMax}

TicketStops == {TicketMin}

FollowUpsStops == {FollowUpsMin, FollowUpsMax}

ResponseTimeStops(rev) == {MinMinutes, MAX_MINUTES(rev)}

\* Number(e.target.value) of the entries made in the number fields: a
\* negative number, 0 (also the value of a cleared field) and a number
\* above max
LeadsEntries == {Num(-100, 0), Num(6000, 0)}

ConversionEntries == {Num(-50, 0), Num(150, 0)}

TicketEntries == {Zero, Num(60000, 0)}

FollowUpsEntries == {Num(-2, 0), Num(11, 0)}

ResponseTimeEntries == {Num(-2, 0), Zero, Num(2000, 0)}

\* variant: the entry is clamped at both ends
handleInputChangeClamped(entry, min, max) ==
    IF Gt(entry, max) THEN max ELSE IF Lt(entry, min) THEN min ELSE entry

\* variant: the entry is handed on as typed
handleInputChangeUnclamped(entry, min, max) == entry

\* handleInputChange of SliderInput and TimeSliderInput: the value handed to
\* onChange; min is a prop of the widget that the handler does not read
handleInputChange(entry, min, max) == IF Gt(entry, max) THEN max ELSE entry

\* the values a state cell can hold: its initial value, the stops of its
\* range input and what handleInputChange hands to the setter
LeadsCell ==
    {DefaultLeads} \cup LeadsStops
        \cup {handleInputChange(entry, LeadsMin, LeadsMax) : entry \in LeadsEntries}

ConversionCell ==
    {DefaultConversion} \cup ConversionStops
        \cup {handleInputChange(entry, ConversionMin, ConversionMax) :
                 entry \in ConversionEntries}

TicketCell ==
    {DefaultTicket} \cup TicketStops
        \cup {handleInputChange(entry, TicketMin, TicketMax) : entry \in TicketEntries}

FollowUpsCell ==
    {DefaultFollowUps} \cup FollowUpsStops
        \cup {handleInputChange(entry, FollowUpsMin, FollowUpsMax) :
                 entry \in FollowUpsEntries}

ResponseTimeCell(rev) ==
    {DefaultResponseTime(rev)} \cup ResponseTimeStops(rev)
        \cup {handleInputChange(entry, MinMinutes, MAX_MINUTES(rev)) :
                 entry \in ResponseTimeEntries}

\* the callback applied to every dependency list the cells can form, as
\* pairs <<revision and dependency list, returned object>>
CallbackRuns(revisions) ==
    UNION {{<<<<rev, nLeads, rate, price, attempts, minutes>>,
              Calculate(rev, nLeads, rate, price, attempts, minutes)>> :
              nLeads \in LeadsCell, rate \in ConversionCell, price \in TicketCell,
              attempts \in FollowUpsCell, minutes \in ResponseTimeCell(rev)} :
           rev \in revisions}

Callback == Strict1(CallbackRuns, {1, 2})

\* variant: averageTicket is missing from the dependency list
useMemoWithoutTicket(rev, previous, previousDeps, deps) ==
    IF \A j \in {1, 2, 4, 5} : deps[j] = previousDeps[j] THEN previous
    ELSE (CHOOSE run \in Callback : run[1] = <<rev>> \o deps)[2]

\* useMemo: the callback runs again when a dependency differs from the one
\* of the previous render
useMemo(rev, previous, previousDeps, deps) ==
    IF deps = previousDeps THEN previous
    ELSE (CHOOSE run \in Callback : run[1] = <<rev>> \o deps)[2]

\* the render that follows a state change
Render ==
    /\ result' = useMemo(revision, result,
                         <<leads, conversion, ticket, followUps, responseTime>>,
                         <<leads', conversion', ticket', followUps',
                           responseTime'>>)
    /\ pieData' = PieData(result')

Init ==
    /\ revision \in {1, 2}
    /\ leads = DefaultLeads
    /\ conversion = DefaultConversion
    /\ ticket = DefaultTicket
    /\ followUps = DefaultFollowUps
    /\ responseTime = DefaultResponseTime(revision)
    /\ result = Calculate(revision, leads, conversion, ticket, followUps,
                          responseTime)
    /\ pieData = PieData(result)

\* the range input of each widget: onChange(Number(e.target.value))
LeadsSlider ==
    /\ \E stop \in LeadsStops : leads' = stop
    /\ UNCHANGED <<revision, conversion, ticket, followUps, responseTime>>
    /\ Render

ConversionSlider ==
    /\ \E stop \in ConversionStops : conversion' = stop
    /\ UNCHANGED <<revision, leads, ticket, followUps, responseTime>>
    /\ Render

TicketSlider ==
    /\ \E stop \in TicketStops : ticket' = stop
    /\ UNCHANGED <<revision, leads, conversion, followUps, responseTime>>
    /\ Render

FollowUpsSlider ==
    /\ \E stop \in FollowUpsStops : followUps' = stop
    /\ UNCHANGED <<revision, leads, conversion, ticket, responseTime>>
    /\ Render

ResponseTimeSlider ==
    /\ \E stop \in ResponseTimeStops(revision) : responseTime' = stop
    /\ UNCHANGED <<revision, leads, conversion, ticket, followUps>>
    /\ Render

\* the number input of each widget: handleInputChange
LeadsField ==
    /\ \E entry \in LeadsEntries :
          leads' = handleInputChange(entry, LeadsMin, LeadsMax)
    /\ UNCHANGED <<revision, conversion, ticket, followUps, responseTime>>
    /\ Render

ConversionField ==
    /\ \E entry \in ConversionEntries :
          conversion' = handleInputChange(entry, ConversionMin, ConversionMax)
    /\ UNCHANGED <<revision, leads, ticket, followUps, responseTime>>
    /\ Render

TicketField ==
    /\ \E entry \in TicketEntries :
          ticket' = handleInputChange(entry, TicketMin, TicketMax)
    /\ UNCHANGED <<revision, leads, conversion, followUps, responseTime>>
    /\ Render

FollowUpsField ==
    /\ \E entry \in FollowUpsEntries :
          followUps' = handleInputChange(entry, FollowUpsMin, FollowUpsMax)
    /\ UNCHANGED <<revision, leads, conversion, ticket, responseTime>>
    /\ Render

ResponseTimeField ==
    /\ \E entry \in ResponseTimeEntries :
          responseTime' = handleInputChange(entry, MinMinutes,
                                            MAX_MINUTES(revision))
    /\ UNCHANGED <<revision, leads, conversion, ticket, followUps>>
    /\ Render

\* variant: the reset forgets the response-time cell
handleResetKeepsResponseTime ==
    /\ leads' = DefaultLeads
    /\ conversion' = DefaultConversion
    /\ ticket' = DefaultTicket
    /\ followUps' = DefaultFollowUps
    /\ UNCHANGED <<revision, responseTime>>
    /\ Render

handleReset ==
    /\ leads' = DefaultLeads
    /\ conversion' = DefaultConversion
    /\ ticket' = DefaultTicket
    /\ followUps' = DefaultFollowUps
    /\ responseTime' = DefaultResponseTime(revision)
    /\ UNCHANGED revision
    /\ Render

Next ==
    \/ LeadsSlider
    \/ ConversionSlider
    \/ TicketSlider
    \/ FollowUpsSlider
    \/ ResponseTimeSlider
    \/ LeadsField
    \/ ConversionField
    \/ TicketField
    \/ FollowUpsField
    \/ ResponseTimeField
    \/ handleReset

Spec == Init /\ [][Next]_vars

(***************************************************************************)
(* Properties of the calculation.                                          *)
(***************************************************************************)
Hundred == Num(100, 0)

Ten == Num(10, 0)

Between(x, lo, hi) == Ge(x, lo) /\ Le(x, hi)

\* the engine's documented input domain, with responseTimeMinutes >= 0
NonNegativeInputs ==
    /\ Ge(leads, Zero)
    /\ Ge(conversion, Zero)
    /\ Ge(ticket, Zero)
    /\ Ge(followUps, Zero)
    /\ Ge(responseTime, Zero)

\* leads, conversion and ticket within the [min, max] of their widgets
InWidgetRanges ==
    /\ Between(leads, Num(10, 0), Num(5000, 0))
    /\ Between(conversion, Zero, Hundred)
    /\ Between(ticket, Num(50, 0), Num(50000, 0))

SmallestResponseTime == responseTime \in {Zero, One}

\* C1 as stated: for non-negative inputs with a positive response time and
\* ANY conversion rate >= 0 (also above 100), efficiency lies in [0, 100].
C1_EfficiencyInRangeAnyConversion ==
    (Computed /\ NonNegativeInputs /\ Gt(responseTime, Zero))
        => Between(result.efficiency, Zero, Hundred)

\* C1 amended: for non-negative inputs with a positive response time and a
\* conversion rate in [0, 100], efficiency lies in [0, 100].
C1_EfficiencyInRange ==
    (Computed /\ NonNegativeInputs /\ Gt(responseTime, Zero)
              /\ Le(conversion, Hundred))
        => Between(result.efficiency, Zero, Hundred)

C1_Witness ==
    /\ Computed /\ NonNegativeInputs /\ Gt(responseTime, Zero)
    /\ Le(conversion, Hundred)
    /\ Gt(result.efficiency, Zero) /\ Lt(result.efficiency, Hundred)

\* C2: for all non-negative inputs the follow-up factor and the
\* response-time factor both lie in the closed interval [0, 1].
C2_FactorsInUnitInterval ==
    (Computed /\ NonNegativeInputs)
        => /\ Between(result.followUpFactor, Zero, One)
           /\ Between(result.responseFactor, Zero, One)

C2_Witness ==
    /\ Computed /\ NonNegativeInputs
    /\ Gt(followUps, Ten)
    /\ Gt(result.responseFactor, Zero) /\ Lt(result.responseFactor, One)

\* C3 as stated: with 10 follow-up attempts and a response time of 1 minute,
\* for leads, conversion and ticket in their widget ranges, total.lossAnnual
\* is 0 and the pie series is empty.
C3_ZeroLossScenario ==
    (Computed /\ followUps = Ten /\ responseTime = One /\ InWidgetRanges)
        => (Eq(result.totalLossAnnual, Zero) /\ pieData = <<>>)

\* C3 amended: in that scenario followUp.lossAnnual is 0 and total.lossAnnual
\* equals response.lossAnnual; this is 0 and the pie empty at conversion 100,
\* and otherwise it is positive and the pie holds exactly the response slice.
C3_OnlyResponseLossRemains ==
    (Computed /\ followUps = Ten /\ responseTime = One /\ InWidgetRanges)
        => /\ Eq(result.followUpLossAnnual, Zero)
           /\ Eq(result.totalLossAnnual, result.responseLossAnnual)
           /\ IF Eq(conversion, Hundred)
              THEN Eq(result.totalLossAnnual, Zero) /\ pieData = <<>>
              ELSE /\ Gt(result.totalLossAnnual, Zero)
                   /\ pieData = << [name  |-> "Perda por Tempo",
                                    value |-> result.responseLossAnnual] >>

C3_Witness ==
    /\ Computed /\ followUps = Ten /\ responseTime = One /\ InWidgetRanges
    /\ Len(pieData) = 1

\* C4 as stated: with at least 10 follow-up attempts and the smallest response
\* times (0 and 1 minute), both loss factors are 0 and efficiency is 100.
C4_PerfectProcessIsFullyEfficient ==
    (Computed /\ Ge(followUps, Ten) /\ SmallestResponseTime
              /\ Ge(leads, Zero) /\ Between(conversion, Zero, Hundred))
        => /\ Eq(result.followUpFactor, Zero)
           /\ Eq(result.responseFactor, Zero)
           /\ Eq(result.efficiency, Hundred)

\* C4 amended: with at least 10 follow-up attempts the follow-up factor is 0,
\* but at 0 and 1 minute the response factor is strictly positive (below
\* 0.03), and efficiency is 100 exactly when no response loss remains.
C4_ResponseFactorStaysPositive ==
    (Computed /\ Ge(followUps, Ten) /\ SmallestResponseTime
              /\ Ge(leads, Zero) /\ Between(conversion, Zero, Hundred))
        => /\ Eq(result.followUpFactor, Zero)
           /\ Gt(result.responseFactor, Zero)
           /\ Lt(result.responseFactor, Num(3, -2))
           /\ Eq(result.efficiency, Hundred) <=> Eq(result.responseLossSales, Zero)
           /\ Eq(result.responseLossSales, Zero)
                <=> (Eq(leads, Zero) \/ Eq(conversion, Hundred))
           /\ Le(result.efficiency, Hundred)

C4_Witness ==
    /\ Computed /\ Ge(followUps, Ten) /\ SmallestResponseTime
    /\ Gt(leads, Zero) /\ Gt(conversion, Zero) /\ Lt(conversion, Hundred)
    /\ Lt(result.efficiency, Hundred)

\* C5: with conversion 0 and leads >= 0, currentSales is 0 and efficiency is
\* 0 when total.lossSales > 0 and 100 otherwise.
C5_ZeroConversion ==
    (Computed /\ Eq(conversion, Zero) /\ Ge(leads, Zero))
        => /\ Eq(result.currentSales, Zero)
           /\ IF Gt(result.totalLossSales, Zero)
              THEN Eq(result.efficiency, Zero)
              ELSE Eq(result.efficiency, Hundred)

C5_Witness ==
    /\ Computed /\ Eq(conversion, Zero) /\ Gt(leads, Zero)
    /\ Gt(result.totalLossSales, Zero)
    /\ Eq(result.efficiency, Zero)

\* C6: the follow-up status is CRITICAL exactly when the factor is > 0.60,
\* WARNING exactly when 0.30 <= factor <= 0.60 and ADEQUATE exactly when the
\* factor is < 0.30, for every input.
C6_FollowUpStatusLadder ==
    Computed
        => /\ result.followUpStatus \in {"CRITICAL", "WARNING", "ADEQUATE"}
           /\ result.followUpStatus = "CRITICAL"
                <=> Gt(result.followUpFactor, Num(60, -2))
           /\ result.followUpStatus = "WARNING"
                <=> Between(result.followUpFactor, Num(30, -2), Num(60, -2))
           /\ result.followUpStatus = "ADEQUATE"
                <=> Lt(result.followUpFactor, Num(30, -2))

\* C7: in the first revision the response status follows the raw minutes:
\* EXCELLENT iff <= 5, GOOD iff in (5, 30], WARNING iff in (30, 60],
\* CRITICAL iff > 60; IMPROVE is never produced.
C7_ResponseStatusByMinutes ==
    (Computed /\ revision = 1)
        => /\ result.responseStatus # "IMPROVE"
           /\ result.responseStatus = "EXCELLENT" <=> Le(responseTime, Num(5, 0))
           /\ result.responseStatus = "GOOD"
                <=> (Gt(responseTime, Num(5, 0)) /\ Le(responseTime, Num(30, 0)))
           /\ result.responseStatus = "WARNING"
                <=> (Gt(responseTime, Num(30, 0)) /\ Le(responseTime, Num(60, 0)))
           /\ result.responseStatus = "CRITICAL" <=> Gt(responseTime, Num(60, 0))

C7_Witness ==
    /\ Computed /\ revision = 1
    /\ responseTime = Num(60, 0)
    /\ result.responseStatus = "WARNING"

\* C8: in the second revision the response status follows the factor:
\* EXCELLENT iff < 0.15, GOOD iff in [0.15, 0.35), IMPROVE iff in [0.35, 0.60),
\* WARNING iff in [0.60, 0.85), CRITICAL iff >= 0.85.
C8_ResponseStatusByFactor ==
    (Computed /\ revision = 2)
        => LET f == result.responseFactor
               s == result.responseStatus
           IN  /\ s = "EXCELLENT" <=> Lt(f, Num(15, -2))
               /\ s = "GOOD" <=> (Ge(f, Num(15, -2)) /\ Lt(f, Num(35, -2)))
               /\ s = "IMPROVE" <=> (Ge(f, Num(35, -2)) /\ Lt(f, Num(60, -2)))
               /\ s = "WARNING" <=> (Ge(f, Num(60, -2)) /\ Lt(f, Num(85, -2)))
               /\ s = "CRITICAL" <=> Ge(f, Num(85, -2))

\* order of the response labels, best first
Rank(status) ==
    CASE status = "EXCELLENT" -> 5
      [] status = "GOOD"      -> 4
      [] status = "IMPROVE"   -> 3
      [] status = "WARNING"   -> 2
      [] status = "CRITICAL"  -> 1

\* response factor and label of every enumerated response time
FactorPairs == {<<t, responseTimeLossFactor(t)>> : t \in ResponseTimeValues}

FactorAt ==
    [t \in ResponseTimeValues |-> (CHOOSE p \in FactorPairs : p[1] = t)[2]]

LabelAt ==
    [r \in {1, 2} |->
        [t \in ResponseTimeValues |-> responseStatus(r, t, FactorAt[t])]]

\* C9: in each revision the response label is monotone: a response time
\* a <= b never gets a worse label than b, and a lower response factor never
\* gets a worse label than a higher one.
C9_ResponseLabelMonotone ==
    Computed
        => \A b \in ResponseTimeValues :
              /\ Le(responseTime, b)
                    => Rank(result.responseStatus) >= Rank(LabelAt[revision][b])
              /\ Lt(result.responseFactor, FactorAt[b])
                    => Rank(result.responseStatus) >= Rank(LabelAt[revision][b])

\* follow-up factor of every enumerated number of attempts
FollowUpFactorPairs == {<<n, followUpLossFactor(n)>> : n \in FollowUpsValues}

FollowUpFactorAt ==
    [n \in FollowUpsValues |-> (CHOOSE p \in FollowUpFactorPairs : p[1] = n)[2]]

\* C10: the follow-up factor is non-increasing in followUpAttempts over 0..10
\* and is the constant 0 for every followUpAttempts >= 10.
C10_FollowUpFactorNonIncreasing ==
    (Computed /\ Ge(followUps, Zero))
        => /\ \A b \in FollowUpsValues :
                Le(followUps, b)
                    => Ge(result.followUpFactor, FollowUpFactorAt[b])
           /\ Ge(followUps, Ten) => Eq(result.followUpFactor, Zero)

C10_Witness ==
    /\ Computed
    /\ followUps = Num(3, 0)
    /\ Gt(result.followUpFactor, FollowUpFactorAt[Num(4, 0)])
    /\ Lt(result.followUpFactor, FollowUpFactorAt[Num(2, 0)])

\* a whole number of minutes, the step of the response-time slider
IsWhole(x) ==
    IsFinite(x) /\ (x.m = 0 \/ x.e >= 0 \/ (-x.e <= 9 /\ x.m % Pow10(-x.e) = 0))

InAdmittedRange(x) == Between(x, Zero, Num(1440, 0))

\* C11 as stated, on non-negative inputs: for ANY two response times a < b in
\* 0..1440 minutes, the response factor of a is strictly below the response
\* factor of b.
C11_ResponseFactorStrictlyIncreasing ==
    (Computed /\ NonNegativeInputs /\ InAdmittedRange(responseTime))
        => \A b \in ResponseTimeValues :
              (InAdmittedRange(b) /\ Lt(responseTime, b))
                  => Lt(result.responseFactor, FactorAt[b])

\* C11 amended: for any two WHOLE-minute response times a < b in 0..1440, the
\* response factor of a is strictly below the response factor of b.
C11_StrictlyIncreasingOverWholeMinutes ==
    (Computed /\ InAdmittedRange(responseTime) /\ IsWhole(responseTime))
        => \A b \in ResponseTimeValues :
              (InAdmittedRange(b) /\ IsWhole(b) /\ Lt(responseTime, b))
                  => Lt(result.responseFactor, FactorAt[b])

C11_Witness ==
    /\ Computed
    /\ responseTime = Num(1439, 0)
    /\ Gt(result.responseFactor, FactorAt[Num(297, 0)])
    /\ Lt(result.responseFactor, FactorAt[Num(1440, 0)])

\* C12: the follow-up factor is exactly 1 when followUpAttempts = 0 and
\* exactly 0 when followUpAttempts = 10, whatever the other four inputs are.
C12_FollowUpFactorBoundaries ==
    Computed
        => /\ followUps = Zero => result.followUpFactor = One
           /\ followUps = Ten => result.followUpFactor = Zero

C12_Witness ==
    /\ Computed
    /\ followUps = Ten
    /\ result.followUpFactor = Zero
    /\ Lt(leads, Zero) /\ Gt(conversion, Hundred) /\ Lt(responseTime, Zero)

C14_Baseline ==
    Computed
        => LET sales == Mul(leads, Div(conversion, Hundred))
           IN  /\ result.currentSales = sales
               /\ result.currentRevenue = Mul(sales, ticket)
               /\ result.annualRevenue = Mul(Mul(sales, ticket), Num(12, 0))
               /\ NonNegativeInputs => Ge(result.currentSales, Zero)

C14_Witness ==
    /\ Computed
    /\ leads = Hundred /\ conversion = Ten /\ ticket = Num(5000, 0)
    /\ result.currentSales = Ten
    /\ result.currentRevenue = Num(50000, 0)
    /\ result.annualRevenue = Num(600000, 0)

\* C15: each loss model's lost sales equal
\* nonConvertedLeads * poolShare * factor * closeRate with
\* nonConvertedLeads = leads - currentSales, poolShare 0.50 and closeRate 0.12
\* for follow-up, poolShare 0.60 and closeRate 0.15 for response time.
C15_LossSales ==
    Computed
        => LET pool == Sub(leads, result.currentSales)
           IN  /\ result.followUpLossSales
                     = Mul(Mul(Mul(pool, Num(50, -2)), result.followUpFactor),
                           Num(12, -2))
               /\ result.responseLossSales
                     = Mul(Mul(Mul(pool, Num(60, -2)), result.responseFactor),
                           Num(15, -2))

C15_Witness ==
    /\ Computed
    /\ leads = Hundred /\ conversion = Ten
    /\ followUps = Num(3, 0) /\ responseTime = Num(60, 0)
    /\ Gt(result.followUpLossSales, Num(2, 0))
    /\ Lt(result.followUpLossSales, result.responseLossSales)
    /\ Lt(result.responseLossSales, Num(5, 0))

AbsValue(x) == IF Sign(x) < 0 THEN Neg(x) ELSE x

\* relative size of a few units in the last place
RoundingSlack == Num(3, 1 - Precision)

\* x and y are the same value, or finite and equal up to rounding
CloseTo(x, y) ==
    \/ x = y
    \/ /\ IsFinite(x) /\ IsFinite(y)
       /\ Le(AbsValue(Sub(x, y)),
             Mul(RoundingSlack, MathMax(AbsValue(x), AbsValue(y))))

\* C16 as stated, on non-negative inputs: in the follow-up, response and total
\* blocks alike lossRevenue = lossSales * averageTicket and
\* lossAnnual = lossRevenue * 12; in particular total.lossRevenue equals
\* total.lossSales * averageTicket.
C16_RevenueIsSalesTimesTicket ==
    (Computed /\ NonNegativeInputs)
        => /\ result.followUpLossRevenue = Mul(result.followUpLossSales, ticket)
           /\ result.followUpLossAnnual
                 = Mul(result.followUpLossRevenue, Num(12, 0))
           /\ result.responseLossRevenue = Mul(result.responseLossSales, ticket)
           /\ result.responseLossAnnual
                 = Mul(result.responseLossRevenue, Num(12, 0))
           /\ result.totalLossRevenue = Mul(result.totalLossSales, ticket)
           /\ result.totalLossAnnual = Mul(result.totalLossRevenue, Num(12, 0))

\* C16 amended: the follow-up and response blocks have
\* lossRevenue = lossSales * averageTicket, all three blocks have
\* lossAnnual = lossRevenue * 12, and total.lossRevenue is the sum of the two
\* per-model revenues, which equals total.lossSales * averageTicket only up to
\* floating-point rounding.
C16_TotalRevenueIsSumOfRevenues ==
    Computed
        => /\ result.followUpLossRevenue = Mul(result.followUpLossSales, ticket)
           /\ result.followUpLossAnnual
                 = Mul(result.followUpLossRevenue, Num(12, 0))
           /\ result.responseLossRevenue = Mul(result.responseLossSales, ticket)
           /\ result.responseLossAnnual
                 = Mul(result.responseLossRevenue, Num(12, 0))
           /\ result.totalLossRevenue
                 = Add(result.followUpLossRevenue, result.responseLossRevenue)
           /\ CloseTo(result.totalLossRevenue,
                      Mul(result.totalLossSales, ticket))
           /\ result.totalLossAnnual = Mul(result.totalLossRevenue, Num(12, 0))

C16_Witness ==
    /\ Computed /\ NonNegativeInputs /\ Le(conversion, Hundred)
    /\ IsFinite(result.totalLossRevenue) /\ Gt(result.totalLossRevenue, Zero)
    /\ result.totalLossRevenue # Mul(result.totalLossSales, ticket)
    /\ CloseTo(result.totalLossRevenue, Mul(result.totalLossSales, ticket))

\* x is v to the precision shown: within one unit of v's last digit
Near(x, v, unit) == Between(x, Sub(v, unit), Add(v, unit))

\* the default inputs of the first revision
DefaultInputs ==
    /\ leads = Hundred /\ conversion = Ten /\ ticket = Num(5000, 0)
    /\ followUps = Num(3, 0) /\ responseTime = Num(60, 0)

\* C17 as stated: for the default inputs currentSales = 10,
\* currentRevenue = 50000, annualRevenue = 600000, followUp.factor ~ 0.4217,
\* followUp.status = WARNING, followUp.lossSales ~ 2.28,
\* followUp.lossRevenue ~ 11385, response.factor ~ 0.5033,
\* response.lossSales ~ 4.08, response.lossRevenue ~ 20385,
\* total.lossRevenue ~ 31770 and efficiency ~ 61.2.
C17_DefaultScenario ==
    (Computed /\ DefaultInputs)
        => /\ result.currentSales = Ten
           /\ result.currentRevenue = Num(50000, 0)
           /\ result.annualRevenue = Num(600000, 0)
           /\ Near(result.followUpFactor, Num(4217, -4), Num(1, -4))
           /\ result.followUpStatus = "WARNING"
           /\ Near(result.followUpLossSales, Num(228, -2), Num(1, -2))
           /\ Near(result.followUpLossRevenue, Num(11385, 0), One)
           /\ Near(result.responseFactor, Num(5033, -4), Num(1, -4))
           /\ Near(result.responseLossSales, Num(408, -2), Num(1, -2))
           /\ Near(result.responseLossRevenue, Num(20385, 0), One)
           /\ Near(result.totalLossRevenue, Num(31770, 0), One)
           /\ Near(result.efficiency, Num(612, -1), Num(1, -1))

\* C17 amended: as stated, except followUp.factor ~ 0.4219,
\* followUp.lossRevenue ~ 11390, total.lossRevenue ~ 31775 and
\* efficiency ~ 61.1.
C17_DefaultScenarioOfTheCode ==
    (Computed /\ DefaultInputs)
        => /\ result.currentSales = Ten
           /\ result.currentRevenue = Num(50000, 0)
           /\ result.annualRevenue = Num(600000, 0)
           /\ Near(result.followUpFactor, Num(4219, -4), Num(1, -4))
           /\ result.followUpStatus = "WARNING"
           /\ Near(result.followUpLossSales, Num(228, -2), Num(1, -2))
           /\ Near(result.followUpLossRevenue, Num(11390, 0), One)
           /\ Near(result.responseFactor, Num(5033, -4), Num(1, -4))
           /\ Near(result.responseLossSales, Num(408, -2), Num(1, -2))
           /\ Near(result.responseLossRevenue, Num(20385, 0), One)
           /\ Near(result.totalLossRevenue, Num(31775, 0), One)
           /\ Near(result.efficiency, Num(611, -1), Num(1, -1))

C17_Witness ==
    /\ Computed /\ DefaultInputs
    /\ Gt(result.followUpFactor, Num(4218, -4))
    /\ Gt(result.followUpLossRevenue, Num(11386, 0))
    /\ Lt(result.efficiency, Num(612, -1))

\* C19: when an input is NaN (here followUpAttempts), every numeric Result
\* field that depends on it, efficiency included, is non-finite.
C19_NaNPropagates ==
    (Computed /\ IsNaN(followUps))
        => /\ ~IsFinite(result.followUpFactor)
           /\ ~IsFinite(result.followUpLossSales)
           /\ ~IsFinite(result.followUpLossRevenue)
           /\ ~IsFinite(result.followUpLossAnnual)
           /\ ~IsFinite(result.totalLossSales)
           /\ ~IsFinite(result.totalLossRevenue)
           /\ ~IsFinite(result.totalLossAnnual)
           /\ ~IsFinite(result.efficiency)

\* C20: in every state reachable through slider moves, number-field edits and
\* reset, each of the five inputs lies within its widget's [min, max].
C20_InputsWithinWidgetRanges ==
    /\ Between(leads, LeadsMin, LeadsMax)
    /\ Between(conversion, ConversionMin, ConversionMax)
    /\ Between(ticket, TicketMin, TicketMax)
    /\ Between(followUps, FollowUpsMin, FollowUpsMax)
    /\ Between(responseTime, MinMinutes, MAX_MINUTES(revision))

(***************************************************************************)
(* Properties of the component: state cells, memoised result, rendering.   *)
(***************************************************************************)
\* the two slices of the composition chart before filtering
Slices(res) ==
    << [name |-> "Perda por Follow-up", value |-> res.followUpLossAnnual],
       [name |-> "Perda por Tempo", value |-> res.responseLossAnnual] >>

\* C21: the composition series holds the follow-up slice exactly when the
\* follow-up annual loss is non-zero and the response slice exactly when the
\* response annual loss is non-zero, in that order and with those values: only
\* zero-valued slices are removed.
C21_PieMirrorsResult ==
    pieData = SelectSeq(Slices(result), LAMBDA d : ~Eq(d.value, Zero))

\* C22: in every reachable state of the component the rendered result is the
\* engine applied to the current values of the five inputs: no widget or
\* reset interaction leaves a stale result on screen.
C22_ResultIsEngineOfInputs ==
    result = Calculate(revision, leads, conversion, ticket, followUps,
                       responseTime)

C22_Witness ==
    /\ leads = LeadsMax
    /\ conversion = ConversionMax
    /\ ticket = TicketMax
    /\ followUps = FollowUpsMax
    /\ responseTime = MinMinutes
    /\ result.currentRevenue = Num(25, 7)
    /\ Eq(result.totalLossAnnual, Zero)

\* C23: from any reachable state the reset action leads to the initial state
\* of the running revision: the five inputs hold the start-up defaults (100,
\* 10, 5000, 3 and 60 or 240 minutes), the result and the composition series
\* are the start-up ones, and a reset of the initial state changes nothing.
C23_ResetRestoresInitialState ==
    [][/\ handleReset => Init'
       /\ (handleReset /\ Init) => UNCHANGED vars]_vars

\* a state in which the reset has all five cells and the result to restore
C23_Witness ==
    /\ leads # DefaultLeads
    /\ conversion # DefaultConversion
    /\ ticket # DefaultTicket
    /\ followUps # DefaultFollowUps
    /\ responseTime # DefaultResponseTime(revision)
    /\ ENABLED (handleReset /\ result' # result /\ pieData' # pieData)

\* C25: whenever the total annual loss is 0, the state in which the summary
\* panel announces an efficiency of 100%, the computed efficiency is 100, in
\* every state reachable through the input widgets.
C25_ZeroLossMeansFullEfficiency ==
    Eq(result.totalLossAnnual, Zero) => Eq(result.efficiency, Hundred)

\* the impact summary shows its optimized content: the first copy
\* tests totalLossAnnual > 0, the second totalLossAnnual === 0
bannerOptimized(rev, res) ==
    IF rev = 1 THEN ~Gt(res.totalLossAnnual, Zero)
    ELSE Eq(res.totalLossAnnual, Zero)

\* the sticky footer shows the congratulation rather than the loss message
footerOptimized(res) == ~Gt(res.totalLossAnnual, Zero)

\* the charts section is rendered
chartsShown(res) == Gt(res.totalLossAnnual, Zero)

\* C26: in every reachable state the impact summary, the charts section and
\* the sticky footer agree on one verdict: the summary shows its optimized
\* content exactly when the footer shows the congratulation, and the charts
\* are shown exactly when both show the loss message.
C26_OneVerdict ==
    /\ bannerOptimized(revision, result) <=> footerOptimized(result)
    /\ chartsShown(result)
          <=> (~bannerOptimized(revision, result) /\ ~footerOptimized(result))

\* C27: after any sequence of slider moves, number-field edits and resets no
\* input exceeds its widget maximum (180 minutes for the response time of the
\* first revision, 1440 for the second): the number field replaces an entry
\* above max with max.
C27_InputsNeverAboveMaximum ==
    /\ Le(leads, LeadsMax)
    /\ Le(conversion, ConversionMax)
    /\ Le(ticket, TicketMax)
    /\ Le(followUps, FollowUpsMax)
    /\ Le(responseTime, MAX_MINUTES(revision))

\* every cell sits at its maximum; the ticket slider has no stop there in the
\* model, so the ticket got its value from an entry above max
C27_Witness ==
    /\ leads = LeadsMax
    /\ conversion = ConversionMax
    /\ ticket = TicketMax
    /\ followUps = FollowUpsMax
    /\ responseTime = MAX_MINUTES(revision)

\* the pool of non-converted leads of the current inputs and what each loss
\* model counts as recoverable from it
Pool == nonConvertedLeads(leads, currentSales(leads, conversion))

FollowUpDraw == followUpRecoverableLeads(Pool, result.followUpFactor)

ResponseDraw == responseRecoverableLeads(Pool, result.responseFactor)

\* C28: for leads >= 0 and 0 <= conversionRate <= 100, the leads counted as
\* recoverable by follow-up plus the leads counted as recoverable by response
\* time never exceed nonConvertedLeads (stated here for followUpAttempts >= 0
\* and responseTimeMinutes >= 0 only, where both draws are numbers).
C28_PoolNotOverdrawn ==
    (/\ Computed
     /\ Ge(leads, Zero)
     /\ Between(conversion, Zero, Hundred)
     /\ Ge(followUps, Zero)
     /\ Ge(responseTime, Zero))
        => Le(Add(FollowUpDraw, ResponseDraw), Pool)

\* C28 (amended): for leads >= 0, 0 <= conversionRate <= 100,
\* followUpAttempts >= 0 and responseTimeMinutes >= 0, each loss model stays
\* within its own share of the pool: the follow-up draw lies between 0 and 50%
\* of nonConvertedLeads and the response draw between 0 and 60% of it.
C28_EachDrawWithinItsShare ==
    (/\ Computed
     /\ Ge(leads, Zero)
     /\ Between(conversion, Zero, Hundred)
     /\ Ge(followUps, Zero)
     /\ Ge(responseTime, Zero))
        => /\ Between(FollowUpDraw, Zero, maxFollowUpRecoverable(Pool))
           /\ Between(ResponseDraw, Zero, maxResponseRecoverable(Pool))

\* no follow-up and a day of delay: the follow-up draw is its whole share and
\* the two draws together are more than the pool
C28_Witness ==
    /\ Computed
    /\ leads = Hundred
    /\ conversion = Ten
    /\ followUps = Zero
    /\ responseTime = Num(1440, 0)
    /\ Pool = Num(90, 0)
    /\ FollowUpDraw = Num(45, 0)
    /\ Gt(ResponseDraw, Num(52, 0))
    /\ Gt(Add(FollowUpDraw, ResponseDraw), Pool)

\* the efficiency the engine computes for a volume of leads and the two loss
\* factors, at the conversion rate of the current inputs
EfficiencyOf(nLeads, fuFactor, rtFactor) ==
    efficiency(currentSales(nLeads, conversion),
               totalLossSales(
                   followUpLossSales(
                       nonConvertedLeads(nLeads, currentSales(nLeads, conversion)),
                       fuFactor),
                   responseLossSales(
                       nonConvertedLeads(nLeads, currentSales(nLeads, conversion)),
                       rtFactor)))

\* C29: with the other inputs fixed and 0 <= conversionRate <= 100,
\* efficiency does not decrease when followUpAttempts increases and does not
\* increase when responseTimeMinutes increases.
C29_BetterProcessNeverScoresWorse ==
    (Computed /\ Between(conversion, Zero, Hundred))
        => /\ \A b \in FollowUpsValues :
                Lt(followUps, b)
                    => Ge(EfficiencyOf(leads, FollowUpFactorAt[b],
                                       result.responseFactor),
                          result.efficiency)
           /\ \A b \in ResponseTimeValues :
                Lt(responseTime, b)
                    => Le(EfficiencyOf(leads, result.followUpFactor,
                                       FactorAt[b]),
                          result.efficiency)

\* volumes of leads to compare the current one with
OtherLeads == {Num(10, 0), Num(30, 0), Num(70, 0), Num(5000, 0)}

\* the inputs of the engine's documented domain with a volume of leads
InDomainWithLeads ==
    /\ Computed
    /\ Gt(leads, Zero)
    /\ Between(conversion, Zero, Hundred)
    /\ Ge(followUps, Zero)
    /\ Ge(responseTime, Zero)

\* C30: two inputs that agree on conversionRate, followUpAttempts and
\* responseTimeMinutes yield the same efficiency whatever their averageTicket
\* and whatever their strictly positive leads.
C30_EfficiencyIgnoresTicketAndVolume ==
    (Computed /\ Gt(leads, Zero))
        => \A other \in OtherLeads :
              result.efficiency =
                  EfficiencyOf(other, result.followUpFactor,
                               result.responseFactor)

\* C30 (amended): for 0 <= conversionRate <= 100, followUpAttempts >= 0 and
\* responseTimeMinutes >= 0, the efficiency is the same whatever the
\* averageTicket, and for two volumes of leads within 10..5000 it is the same
\* up to the rounding of the arithmetic.
C30_EfficiencyIgnoresTicketAndScale ==
    InDomainWithLeads
        => /\ result.efficiency =
                  EfficiencyOf(leads, result.followUpFactor,
                               result.responseFactor)
           /\ \A other \in OtherLeads :
                 CloseTo(result.efficiency,
                         EfficiencyOf(other, result.followUpFactor,
                                      result.responseFactor))

\* a state whose efficiency differs in the last place from the one of another
\* volume of leads; its ticket does not enter the comparison
C30_Witness ==
    /\ InDomainWithLeads
    /\ Gt(ticket, Zero)
    /\ Gt(result.efficiency, Zero)
    /\ Lt(result.efficiency, Hundred)
    /\ \E other \in OtherLeads :
          result.efficiency #
              EfficiencyOf(other, result.followUpFactor, result.responseFactor)

====
